---------------------------- MODULE Spec2Model ----------------------------
(***************************************************************************)
(* A model of the Helios Quant Framework's computational core:             *)
(*   - the parallel Monte Carlo simulator (go/montecarlo/simulator.go),    *)
(*   - the portfolio optimisation module (r/optimization.R),               *)
(*   - the risk models module (r/risk_models.R).                           *)
(*   - the web tier: the route handlers, the Heston page and the Go API    *)
(*     handler of the simulation.                                          *)
(* Floating point values are modelled in fixed point; every scale is named *)
(* where it is introduced.                                                 *)
(***************************************************************************)
EXTENDS Integers, Sequences, FiniteSets, TLC

(***************************************************************************)
(* Bounds of the model.                                                    *)
(***************************************************************************)
MaxIterations == 3
MaxJobs == 2
MaxClock == 1
MaxMean == 1
MaxStdDev == 1
MaxAssets == 2
MaxMu == 3
MaxPortfolios == 3
PUnit == 2
MaxScenarios == 3
MaxReturn == 2
ConfSteps == 4
MaxParam == 2
MaxFaults == 1

MaxOutput == 2

MaxSteps == 2

MaxPaths == 2

MaxActions == 3

MaxRows == 2

MaxElapsed == 1

VARIABLES
    \* ---- go/montecarlo/simulator.go: one call of runMonteCarloSimulation
    pc,          \* position of the calling goroutine
    iterations,  \* parameter
    mean,        \* parameter (whole units)
    stdDev,      \* parameter (whole units)
    jobs,        \* parameter
    chunkSize,   \* local of runMonteCarloSimulation
    i,           \* loop counter of the spawning loop
    wg,          \* the sync.WaitGroup counter
    results,     \* the shared []float64, in thousandths
    workers,     \* the goroutines started so far
    rngs,        \* the *rand.Rand instances allocated so far
    clock,       \* time.Now().UnixNano()
    writers,     \* per slot of results: the workers that wrote it, in order
    result,      \* the SimulationResult returned
    reduceSaw,   \* workers still running when calculateStatistics read results
    history,     \* the calls completed so far: their jobs and result
    callsLeft,   \* the calls the caller still makes
    finished,    \* the workers that have finished, in the order they did
    \* ---- r/optimization.R
    opc,               \* position of the R caller
    expected_returns,  \* parameter: one whole number per asset
    cov_matrix,        \* parameter: the rows of the covariance matrix
    n_portfolios,      \* parameter of efficient_frontier
    target_returns,    \* local of efficient_frontier
    frontier,          \* local of efficient_frontier: the data frame
    fi,                \* the loop variable i of efficient_frontier
    outcomes,          \* what markowitz_optimization did at each i so far
    frontierOut,       \* the data frame efficient_frontier returned
    mkTarget,          \* target_return of a direct markowitz_optimization call
    mkOutcome,         \* what that call did
    msOptim,           \* what optim() did in max_sharpe_portfolio
    msOutcome,         \* what max_sharpe_portfolio did
    \* ---- r/risk_models.R
    rpc,         \* position of the R caller
    returns,     \* parameter: the scenario returns, in thousandths
    confidence,  \* parameter: confidence = confidence / ConfSteps
    varValue,    \* what calculate_var returned, a fraction
    tail,        \* returns[returns <= var] of calculate_cvar
    cvar,        \* what calculate_cvar returned: the mean as sum / count
    \* ---- the web tier
    wpc,         \* position of the request (or of the page)
    origin,      \* "page": sent by the Heston page; "direct": any client
    route,       \* the route the request is posted to
    body,        \* the JSON body of the request
    spawned,     \* the subprocesses started for the request: their arguments
    response,    \* the response to the request
    page,        \* the state of the Heston page: loading, error, result
    sim,         \* what runMonteCarloSimulation was called with and did
    child,       \* the subprocess: what it still prints, its exit code, the
                 \* chunks and the events it has emitted
    stdout,      \* the handler's local stdout (outputData)
    promise,     \* the promise the handler awaits
    \* ---- the pricing scripts the routes start
    xpc,         \* position of the script
    argv,        \* the arguments the route started it with
    quotes,      \* black_scholes_api: the prices returned, by option type
    barrier,     \* exotic_api: the barrier level B
    path,        \* exotic_api: the path being simulated
    sums,        \* exotic_api: paths done, sum of vanilla and barrier payoffs
    exotic,      \* exotic_api: the vanilla and the knock-out price
    \* ---- the browser pages
    mounted,         \* the page open in the browser
    funds,           \* portfolio page: the fund list
    editingId,       \* portfolio page
    editForm,        \* portfolio page
    now,             \* Date.now()
    parsing,         \* the CSV files Papa.parse is reading: the funds their
                     \* complete callback closes over, and their rows
    actionsLeft,     \* the actions the user still takes
    apiStatus,       \* dashboard
    loading,         \* dashboard
    simulationData,  \* dashboard
    fetches          \* dashboard: the requests in flight

mcVars == <<pc, iterations, mean, stdDev, jobs, chunkSize, i, wg, results,
            workers, rngs, clock, writers, result, reduceSaw, history, callsLeft,
            finished>>

optVars == <<opc, expected_returns, cov_matrix, n_portfolios, target_returns,
             frontier, fi, outcomes, frontierOut, mkTarget, mkOutcome, msOptim,
             msOutcome>>

riskVars == <<rpc, returns, confidence, varValue, tail, cvar>>

webVars == <<wpc, origin, route, body, spawned, response, page, sim, child,
            stdout, promise>>

pxVars == <<xpc, argv, quotes, barrier, path, sums, exotic>>

pgVars == <<mounted, funds, editingId, editForm, now, parsing, actionsLeft,
           apiStatus, loading, simulationData, fetches>>

vars == <<mcVars, optVars, riskVars, webVars, pxVars, pgVars>>

(***************************************************************************)
(* float64 values.  A finite value is an integer number of thousandths;    *)
(* the three non-finite values are integers outside the finite range.      *)
(***************************************************************************)
PosInf == 10^9
NegInf == -(10^9)
NaN == 2 * 10^9

IsNaN(x) == x = NaN
IsInf(x) == x = PosInf \/ x = NegInf
IsFinite(x) == ~IsNaN(x) /\ ~IsInf(x)

Abs(x) == IF x < 0 THEN -x ELSE x

\* Go's integer division truncates toward zero.
GoDiv(a, b) ==
    LET q == Abs(a) \div Abs(b)
    IN  IF (a < 0) # (b < 0) THEN -q ELSE q

\* A float64 holds a fixed number of significant bits: a magnitude below
\* Mantissa is held exactly, one of [Mantissa, 2 * Mantissa) to the nearest
\* multiple of 2, and so on.  (float64 has 53 such bits; the model keeps 10
\* so that sums of a few simulated values already round.)
Mantissa == 1024

RECURSIVE Ulp(_)
Ulp(a) == IF a < Mantissa THEN 1 ELSE 2 * Ulp(a \div 2)

\* The result of an arithmetic operation: round to nearest, ties to even.
RoundNearestEven(x) ==
    LET a == Abs(x)
        u == Ulp(a)
        q == a \div u
        rem == a % u
        up == 2 * rem > u \/ (2 * rem = u /\ q % 2 = 1)
        m == (IF up THEN q + 1 ELSE q) * u
    IN  IF x < 0 THEN -m ELSE m

FAdd(x, y) ==
    IF IsNaN(x) \/ IsNaN(y) THEN NaN
    ELSE IF IsInf(x) /\ IsInf(y) THEN (IF x = y THEN x ELSE NaN)
    ELSE IF IsInf(x) THEN x
    ELSE IF IsInf(y) THEN y
    ELSE RoundNearestEven(x + y)

FNeg(x) ==
    IF IsNaN(x) THEN NaN
    ELSE IF x = PosInf THEN NegInf
    ELSE IF x = NegInf THEN PosInf
    ELSE -x

FSub(x, y) == FAdd(x, FNeg(y))

\* x / n for a count n >= 1, rounded toward zero.
FDivCount(x, n) == IF IsFinite(x) THEN GoDiv(x, n) ELSE x

\* math.Pow(x, 2), the square of thousandths in millionths.
FSquare(x) ==
    IF IsNaN(x) THEN NaN
    ELSE IF IsInf(x) THEN PosInf
    ELSE RoundNearestEven(x * x)

RECURSIVE ISqrtIter(_, _, _)
ISqrtIter(x, lo, hi) ==
    IF lo >= hi THEN lo
    ELSE LET mid == (lo + hi + 1) \div 2
         IN  IF mid * mid <= x THEN ISqrtIter(x, mid, hi)
             ELSE ISqrtIter(x, lo, mid - 1)

\* math.Sqrt of a value in millionths, in thousandths.
FSqrt(x) ==
    IF IsNaN(x) \/ x = NegInf THEN NaN
    ELSE IF x = PosInf THEN PosInf
    ELSE IF x < 0 THEN NaN
    ELSE ISqrtIter(x, 0, IF x < 46340 THEN x ELSE 46340)

(***************************************************************************)
(* math/rand.  A generator built from a seed yields a sequence fixed by    *)
(* the seed; Float64 returns a value of [0, 1), here k / UGrid.            *)
(***************************************************************************)
UGrid == 4

Float64At(seed, pos) == ((seed + 1) * (pos + 3) + (pos \div 2)) % UGrid

\* math.Sqrt(-2 * math.Log(u1)) in thousandths; u1 = 0 gives +Inf.
BoxMullerRadius(u1) ==
    CASE u1 = 0 -> PosInf
      [] u1 = 1 -> 1665
      [] u1 = 2 -> 1177
      [] OTHER  -> 758

\* math.Cos(2 * math.Pi * u2) on the grid: 1, 6.1e-17, -1, -1.8e-16.
BoxMullerCos(u2) ==
    CASE u2 = 0 -> 1
      [] u2 = 2 -> -1
      [] OTHER  -> 0

BoxMullerCosNegative(u2) == u2 \in {2, 3}

simulatePortfolioReturn(m, sd, u1, u2) ==
    LET r == BoxMullerRadius(u1)
        z == IF IsInf(r)
             THEN (IF BoxMullerCosNegative(u2) THEN NegInf ELSE PosInf)
             ELSE r * BoxMullerCos(u2)
        scaled == IF IsInf(z)
                  THEN (IF sd = 0 THEN NaN
                        ELSE IF sd > 0 THEN z ELSE FNeg(z))
                  ELSE sd * z
    IN  FAdd(m * 1000, scaled)

(***************************************************************************)
(* calculateStatistics                                                     *)
(***************************************************************************)
\* The slots of results in the order a reduction that took each worker's
\* chunk as the worker finished would visit them.
RECURSIVE SlotsInFinishOrder(_)
SlotsInFinishOrder(done) ==
    IF done = <<>> THEN <<>>
    ELSE LET w == workers[Head(done)]
         IN  [k \in 1..(w.end - w.start) |-> w.start + k] \o SlotsInFinishOrder(Tail(done))

RECURSIVE SumInOrder(_, _)
SumInOrder(s, order) ==
    IF order = <<>> THEN 0
    ELSE FAdd(SumInOrder(s, SubSeq(order, 1, Len(order) - 1)), s[order[Len(order)]])

FSumInFinishOrder(s) ==
    IF Len(SlotsInFinishOrder(finished)) = Len(s)
    THEN SumInOrder(s, SlotsInFinishOrder(finished))
    ELSE SumInOrder(s, [k \in 1..Len(s) |-> k])

\* Lines 56-59 (and 63-66): sum := 0.0; for _, v := range results { sum += v }.
RECURSIVE FSum(_)
FSum(s) == IF s = <<>> THEN 0 ELSE FAdd(FSum(SubSeq(s, 1, Len(s) - 1)), s[Len(s)])

\* sort.Float64s: ascending, NaN before every other value.
FLess(a, b) ==
    IF IsNaN(a) THEN ~IsNaN(b)
    ELSE IF IsNaN(b) THEN FALSE
    ELSE a < b

RECURSIVE InsertSorted(_, _)
InsertSorted(s, x) ==
    IF s = <<>> THEN <<x>>
    ELSE IF FLess(x, Head(s)) THEN <<x>> \o s
    ELSE <<Head(s)>> \o InsertSorted(Tail(s), x)

RECURSIVE SortFloat64s(_)
SortFloat64s(s) ==
    IF s = <<>> THEN <<>>
    ELSE InsertSorted(SortFloat64s(Tail(s)), Head(s))

\* int(p * n) for p = pct / 100, as an index into a 1-based sequence.
PercentileIndex(pct, n) == ((pct * n) \div 100) + 1

calculateStatistics(res) ==
    LET n == Len(res)
        sum == FSum(res)
        avg == FDivCount(sum, n)
        variance == FSum([k \in 1..n |-> FSquare(FSub(res[k], avg))])
        sorted == SortFloat64s(res)
    IN  [Mean |-> avg,
         StdDev |-> FSqrt(FDivCount(variance, n)),
         Percentile |-> <<sorted[PercentileIndex(5, n)],
                          sorted[PercentileIndex(25, n)],
                          sorted[PercentileIndex(50, n)],
                          sorted[PercentileIndex(75, n)],
                          sorted[PercentileIndex(95, n)]>>,
         Iterations |-> n]

NoResult == [Mean |-> 0, StdDev |-> 0, Percentile |-> <<>>, Iterations |-> 0]

(***************************************************************************)
(* runMonteCarloSimulation                                                 *)
(***************************************************************************)
JobsDomain == {-1} \cup (1..MaxJobs)

InitCall ==
    /\ pc = "idle"
    /\ jobs = 1
    /\ chunkSize = 0
    /\ i = 0
    /\ wg = 0
    /\ results = <<>>
    /\ workers = <<>>
    /\ rngs = <<>>
    /\ clock = 0
    /\ writers = <<>>
    /\ result = NoResult
    /\ reduceSaw = 0
    /\ history = <<>>
    /\ finished = <<>>

\* Lines 12-15: the call, make([]float64, iterations), chunkSize.
Call ==
    /\ pc = "idle"
    /\ callsLeft > 0
    /\ \E n \in JobsDomain :
          /\ jobs' = n
          /\ chunkSize' = GoDiv(iterations, n)
    /\ results' = [k \in 1..iterations |-> 0]
    /\ writers' = [k \in 1..iterations |-> <<>>]
    /\ i' = 0
    /\ wg' = 0
    /\ workers' = <<>>
    /\ rngs' = <<>>
    /\ result' = NoResult
    /\ reduceSaw' = 0
    /\ finished' = <<>>
    /\ pc' = "loop"
    /\ UNCHANGED <<iterations, mean, stdDev, clock, history, callsLeft>>
    /\ UNCHANGED <<optVars, riskVars, webVars, pxVars, pgVars>>

ChunkStart(k) == k * chunkSize

ChunkEndNoRemainder(k) == ChunkStart(k) + chunkSize

\* Lines 20-23: the last worker takes the remainder.
ChunkEnd(k) == IF k = jobs - 1 THEN iterations ELSE ChunkStart(k) + chunkSize

\* Lines 17-25 and 33: one pass of the spawning loop.
Spawn ==
    /\ pc = "loop"
    /\ i < jobs
    /\ wg' = wg + 1
    /\ workers' = Append(workers, [start |-> ChunkStart(i), end |-> ChunkEnd(i),
                                   j |-> ChunkStart(i), pc |-> "seed", rng |-> 0])
    /\ i' = i + 1
    /\ UNCHANGED <<pc, iterations, mean, stdDev, jobs, chunkSize, results, rngs,
                   clock, writers, result, reduceSaw, history, callsLeft, finished>>
    /\ UNCHANGED <<optVars, riskVars, webVars, pxVars, pgVars>>

\* Line 17: the loop condition fails.
LoopExit ==
    /\ pc = "loop"
    /\ i >= jobs
    /\ pc' = "wait"
    /\ UNCHANGED <<iterations, mean, stdDev, jobs, chunkSize, i, wg, results,
                   workers, rngs, clock, writers, result, reduceSaw, history, callsLeft, finished>>
    /\ UNCHANGED <<optVars, riskVars, webVars, pxVars, pgVars>>

WaitAlwaysReady == TRUE

\* Line 36: wg.Wait() returns when the counter is zero.
WaitReady == wg = 0

NotDone == {w \in 1..Len(workers) : workers[w].pc # "done"}

\* Lines 36-39: wg.Wait(), then calculateStatistics(results).
Reduce ==
    /\ pc = "wait"
    /\ WaitReady
    /\ result' = calculateStatistics(results)
    /\ reduceSaw' = Cardinality(NotDone)
    /\ pc' = "returned"
    /\ UNCHANGED <<iterations, mean, stdDev, jobs, chunkSize, i, wg, results,
                   workers, rngs, clock, writers, history, callsLeft, finished>>
    /\ UNCHANGED <<optVars, riskVars, webVars, pxVars, pgVars>>

\* The caller receives the SimulationResult.
Return ==
    /\ pc = "returned"
    /\ history' = Append(history, [jobs |-> jobs, result |-> result])
    /\ callsLeft' = callsLeft - 1
    /\ pc' = "idle"
    /\ UNCHANGED <<iterations, mean, stdDev, jobs, chunkSize, i, wg, results,
                   workers, rngs, clock, writers, result, reduceSaw, finished>>
    /\ UNCHANGED <<optVars, riskVars, webVars, pxVars, pgVars>>

\* Lines 27-28: the goroutine seeds a generator of its own from the clock,
\* which has advanced by any amount (possibly none) since it was last read.
WorkerSeed(w) ==
    /\ workers[w].pc = "seed"
    /\ \E t \in clock..MaxClock :
          /\ clock' = t
          /\ rngs' = Append(rngs, [creator |-> w, seed |-> t, pos |-> 0, users |-> {}])
    /\ workers' = [workers EXCEPT ![w].pc = "loop", ![w].rng = Len(rngs) + 1]
    /\ UNCHANGED <<pc, iterations, mean, stdDev, jobs, chunkSize, i, wg, results,
                   writers, result, reduceSaw, history, callsLeft, finished>>
    /\ UNCHANGED <<optVars, riskVars, webVars, pxVars, pgVars>>

RngShared(w) == 1

\* Line 28: rng is a local of the goroutine.
RngOf(w) == workers[w].rng

\* Lines 30-32: one pass of the goroutine's loop.
WorkerIter(w) ==
    /\ workers[w].pc = "loop"
    /\ workers[w].j < workers[w].end
    /\ LET r == RngOf(w)
           g == rngs[r]
           slot == workers[w].j + 1
           v == simulatePortfolioReturn(mean, stdDev, Float64At(g.seed, g.pos),
                                        Float64At(g.seed, g.pos + 1))
       IN  /\ rngs' = [rngs EXCEPT ![r].pos = g.pos + 2, ![r].users = g.users \cup {w}]
           /\ results' = [results EXCEPT ![slot] = v]
           /\ writers' = [writers EXCEPT ![slot] = Append(@, w)]
    /\ workers' = [workers EXCEPT ![w].j = @ + 1]
    /\ UNCHANGED <<pc, iterations, mean, stdDev, jobs, chunkSize, i, wg, clock,
                   result, reduceSaw, history, callsLeft, finished>>
    /\ UNCHANGED <<optVars, riskVars, webVars, pxVars, pgVars>>

\* Lines 26 and 30: the loop ends and the deferred wg.Done() runs.
WorkerDone(w) ==
    /\ workers[w].pc = "loop"
    /\ workers[w].j >= workers[w].end
    /\ workers' = [workers EXCEPT ![w].pc = "done"]
    /\ wg' = wg - 1
    /\ finished' = Append(finished, w)
    /\ UNCHANGED <<pc, iterations, mean, stdDev, jobs, chunkSize, i, results, rngs,
                   clock, writers, result, reduceSaw, history, callsLeft>>
    /\ UNCHANGED <<optVars, riskVars, webVars, pxVars, pgVars>>

(***************************************************************************)
(* Properties of runMonteCarloSimulation                                   *)
(***************************************************************************)
ChunkRange(w) == workers[w].start .. (workers[w].end - 1)

Spawned == 1..Len(workers)

\* C1: two calls with the same iterations, mean and stdDev, each with
\* jobs >= 1, return the same SimulationResult.
C1_SameResultOnEveryRun ==
    \A a, b \in 1..Len(history) :
        (history[a].jobs >= 1 /\ history[b].jobs >= 1)
            => history[a].result = history[b].result

\* C2: for iterations >= 1 and jobs >= 1 the workers' index ranges are
\* pairwise disjoint and lie in 0..iterations-1; once all workers are
\* started their union is 0..iterations-1; a slot is written only by the
\* worker whose range holds it, at most once, and exactly once by the time
\* the call returns.
C2_ChunksPartitionResults ==
    jobs >= 1 =>
        /\ \A v, w \in Spawned : v # w => ChunkRange(v) \cap ChunkRange(w) = {}
        /\ \A w \in Spawned : ChunkRange(w) \subseteq 0..(iterations - 1)
        /\ pc \in {"wait", "returned"} =>
              UNION {ChunkRange(w) : w \in Spawned} = 0..(iterations - 1)
        /\ \A k \in 1..Len(writers) :
              /\ Len(writers[k]) <= 1
              /\ \A x \in 1..Len(writers[k]) : (k - 1) \in ChunkRange(writers[k][x])
        /\ pc = "returned" => \A k \in 1..Len(writers) : Len(writers[k]) = 1

C2_Witness ==
    /\ pc = "returned"
    /\ jobs >= 2
    /\ jobs < iterations
    /\ iterations % jobs # 0

\* C3: the generators of the (non-empty) chunks of one call are seeded with
\* pairwise different seeds.
C3_DistinctSubSeeds ==
    \A a, b \in 1..Len(rngs) :
        (/\ a # b
         /\ ChunkRange(rngs[a].creator) # {}
         /\ ChunkRange(rngs[b].creator) # {})
            => rngs[a].seed # rngs[b].seed

\* C4: a generator is advanced only by the worker that created it, and the
\* generator a worker holds is the one it created.
C4_RngOwnedByOneWorker ==
    /\ \A r \in 1..Len(rngs) : rngs[r].users \subseteq {rngs[r].creator}
    /\ \A w \in Spawned :
          workers[w].rng # 0 => rngs[workers[w].rng].creator = w

C4_Witness ==
    \E a, b \in 1..Len(rngs) :
        a # b /\ rngs[a].users # {} /\ rngs[b].users # {}

\* C5: calculateStatistics read results when every one of the jobs workers
\* had been started and had finished.
C5_ReduceAfterAllWorkersDone ==
    pc = "returned" =>
        /\ reduceSaw = 0
        /\ jobs >= 1 => Len(workers) = jobs
        /\ \A w \in Spawned : workers[w].pc = "done" /\ workers[w].j >= workers[w].end

C5_Witness == pc = "returned" /\ Len(workers) >= 2 /\ iterations >= 2

\* C15: no infinity and no NaN is among the values calculateStatistics
\* averages: every slot of results holds a finite value when the reduction
\* has read it.
C15_OnlyFiniteValuesAveraged ==
    pc = "returned" => \A k \in 1..Len(results) : IsFinite(results[k])

IndexOrder(n) == [k \in 1..n |-> k]

\* C20: the mean and the standard deviation returned are those obtained by
\* adding the slots of results in index order 0..n-1, and the percentiles
\* are those of the sorted content, whatever the order in which the
\* workers finished.
C20_ReductionInIndexOrder ==
    (pc = "returned" /\ iterations >= 1) =>
        LET n == Len(results)
            avg == FDivCount(SumInOrder(results, IndexOrder(n)), n)
            squares == [k \in 1..n |-> FSquare(FSub(results[k], avg))]
            sorted == SortFloat64s(results)
        IN  /\ result.Mean = avg
            /\ result.StdDev = FSqrt(FDivCount(SumInOrder(squares, IndexOrder(n)), n))
            /\ \A p \in 1..5 : \E k \in 1..n : result.Percentile[p] = sorted[k]
            /\ \A p \in 1..4 : ~FLess(result.Percentile[p + 1], result.Percentile[p])

\* The workers finished in an order that is not the index order, and
\* adding their slots in that order would have given another mean.
C20_Witness ==
    /\ pc = "returned"
    /\ Len(finished) >= 2
    /\ finished # IndexOrder(Len(finished))
    /\ Len(SlotsInFinishOrder(finished)) = Len(results)
    /\ FDivCount(SumInOrder(results, SlotsInFinishOrder(finished)), Len(results))
           # result.Mean

\* C27: the statistics returned were computed over slots every one of which
\* a worker wrote: no slot still holds the zero make() put there.
C27_NoUnsimulatedSlotAveraged ==
    pc = "returned" => \A k \in 1..Len(results) : writers[k] # <<>>

\* a <= b as float64 compares: false when either is NaN.
FLeq(a, b) == ~IsNaN(a) /\ ~IsNaN(b) /\ a <= b

\* What slot k (1-based) was given: the zero of make() if no worker owns it,
\* else the return its worker computed from its generator's draws
\* 2 * (k - 1 - start) and the next.
SimulatedValue(k) ==
    IF writers[k] = <<>> THEN 0
    ELSE LET w == writers[k][1]
             g == rngs[workers[w].rng]
             at == 2 * ((k - 1) - workers[w].start)
         IN  simulatePortfolioReturn(mean, stdDev, Float64At(g.seed, at),
                                     Float64At(g.seed, at + 1))

\* C28: for n >= 1 the five percentile indices lie in the array, the
\* percentiles returned are in non-decreasing order, the results array
\* still holds every value in the slot it was written to, and Iterations
\* is n.
C28_PercentilesWellFormed ==
    (pc = "returned" /\ Len(results) >= 1) =>
        LET n == Len(results)
        IN  /\ \A pct \in {5, 25, 50, 75, 95} : PercentileIndex(pct, n) \in 1..n
            /\ \A p \in 1..4 : FLeq(result.Percentile[p], result.Percentile[p + 1])
            /\ \A k \in 1..n : results[k] = SimulatedValue(k)
            /\ result.Iterations = n

(***************************************************************************)
(* r/optimization.R.  Expected returns are whole numbers (percent).  A     *)
(* weight vector is a vector of integers w with a denominator unit: the    *)
(* weight of asset k is w[k] / unit.  A target return is a fraction        *)
(* num / den.  Volatility and Sharpe ratio are kept in hundredths.         *)
(***************************************************************************)
RECURSIVE Gcd(_, _)
Gcd(a, b) == IF b = 0 THEN a ELSE Gcd(b, a % b)

RECURSIVE SumSeq(_)
SumSeq(s) == IF s = <<>> THEN 0 ELSE Head(s) + SumSeq(Tail(s))

Dot(a, b) == SumSeq([k \in 1..Len(a) |-> a[k] * b[k]])

\* t(w) %*% M %*% w
Quad(M, w) == SumSeq([r \in 1..Len(w) |-> w[r] * Dot(M[r], w)])

MinOf(S) == CHOOSE x \in S : \A y \in S : x <= y
MaxOf(S) == CHOOSE x \in S : \A y \in S : x >= y
SeqRange(s) == {s[k] : k \in 1..Len(s)}

\* The matrix M without row r and column c.
Minor(M, r, c) ==
    LET n == Len(M)
        keep(x, k) == IF k < x THEN k ELSE k + 1
    IN  [a \in 1..(n - 1) |-> [b \in 1..(n - 1) |-> M[keep(r, a)][keep(c, b)]]]

RECURSIVE Det(_)
Det(M) ==
    IF Len(M) = 1 THEN M[1][1]
    ELSE SumSeq([c \in 1..Len(M) |->
            (IF c % 2 = 1 THEN 1 ELSE -1) * M[1][c] * Det(Minor(M, 1, c))])

LeadingBlock(M, k) == [a \in 1..k |-> [b \in 1..k |-> M[a][b]]]

\* solve.QP factorises Dmat (Cholesky): it must be positive definite.
PositiveDefinite(M) == \A k \in 1..Len(M) : Det(LeadingBlock(M, k)) > 0

\* The unknowns solve.QP searches, at resolution 1 / unit.
QPCandidates(n, unit) == [1..n -> (-unit)..(2 * unit)]

\* quadprog::solve.QP(Dmat, dvec, Amat, bvec, meq): minimise
\* 1/2 b' D b - d' b subject to A' b >= b0, the first meq constraints being
\* equalities; an error when D is not positive definite or when no b
\* satisfies the constraints.  Amat is the sequence of the columns of A.
SolveQP(Dmat, dvec, Amat, bvec, meq, unit) ==
    LET n == Len(dvec)
        Sat(w, k) ==
            LET lhs == Dot(Amat[k], w) * bvec[k].den
                rhs == bvec[k].num * unit
            IN  IF k <= meq THEN lhs = rhs ELSE lhs >= rhs
        feasible == {w \in QPCandidates(n, unit) : \A k \in 1..Len(Amat) : Sat(w, k)}
        Objective(w) == Quad(Dmat, w) - 2 * unit * Dot(dvec, w)
        best == MinOf({Objective(w) : w \in feasible})
    IN  IF ~PositiveDefinite(Dmat)
        THEN [status |-> "error",
              message |-> "matrix D in quadratic function is not positive definite!",
              solution |-> <<>>]
        ELSE IF feasible = {}
        THEN [status |-> "error",
              message |-> "constraints are inconsistent, no solution!",
              solution |-> <<>>]
        ELSE [status |-> "ok", message |-> "",
              solution |-> CHOOSE w \in feasible : Objective(w) = best]

\* The resolution at which the exact minimum-and-maximum-asset mix that
\* attains the target return is a vector of integers.
WeightUnit(mu, target) ==
    LET lo == MinOf(SeqRange(mu))
        hi == MaxOf(SeqRange(mu))
        d == target.den * (IF hi > lo THEN hi - lo ELSE 1)
        nn == Abs(target.num - lo * target.den)
    IN  d \div Gcd(nn, d)

Ones(n) == [k \in 1..n |-> 1]
Zeros(n) == [k \in 1..n |-> 0]
Diag(n) == [c \in 1..n |-> [k \in 1..n |-> IF k = c THEN 1 ELSE 0]]
Whole(x) == [num |-> x, den |-> 1]

\* sqrt(quad) / unit, in hundredths.
VolatilityOf(quad, unit) == ISqrtIter(quad * 10000, 0, 46340) \div unit

EqualityCountBudgetOnly == 1

\* Line 31: meq = 2, the budget and the target return are equalities.
EqualityCount == 2

\* Lines 9-47, target_return given.
markowitz_optimization(mu, cov, target) ==
    LET n_assets == Len(mu)
        unit == WeightUnit(mu, target)
        Dmat == [r \in 1..n_assets |-> [c \in 1..n_assets |-> 2 * cov[r][c]]]
        dvec == Zeros(n_assets)
        Amat == <<Ones(n_assets), mu>> \o Diag(n_assets)
        bvec == <<Whole(1), target>> \o [k \in 1..n_assets |-> Whole(0)]
        qp == SolveQP(Dmat, dvec, Amat, bvec, EqualityCount, unit)
        weights == qp.solution
        portfolio_return == Dot(weights, mu)
        portfolio_variance == Quad(cov, weights)
        portfolio_volatility == VolatilityOf(portfolio_variance, unit)
    IN  IF qp.status = "error"
        THEN [status |-> "error", message |-> qp.message, weights |-> <<>>,
              unit |-> 1, expected_return |-> Whole(0), volatility |-> 0,
              sharpe_ratio |-> 0]
        ELSE [status |-> "ok", message |-> "", weights |-> weights, unit |-> unit,
              expected_return |-> [num |-> portfolio_return, den |-> unit],
              volatility |-> portfolio_volatility,
              sharpe_ratio |-> GoDiv(portfolio_return * 10000,
                                     unit * portfolio_volatility)]

\* Line 53: seq(min_return, max_return, length.out = n_portfolios).
TargetReturns(mu, n) ==
    LET lo == MinOf(SeqRange(mu))
        hi == MaxOf(SeqRange(mu))
    IN  IF n = 1 THEN <<Whole(lo)>>
        ELSE [k \in 1..n |-> [num |-> lo * (n - 1) + (k - 1) * (hi - lo),
                              den |-> n - 1]]

\* Lines 55-59: a row of numeric(n_portfolios) columns.  name is the row
\* name R gives the row; na says whether the row holds NA.
InitialRow(k) ==
    [name |-> k, return |-> Whole(0), volatility |-> 0, sharpe |-> 0, na |-> FALSE]

\* Lines 64-66.
RowOf(k, opt) ==
    [name |-> k, return |-> opt.expected_return, volatility |-> opt.volatility,
     sharpe |-> opt.sharpe_ratio, na |-> FALSE]

\* Lines 67-69: error = function(e) { frontier[i, ] <- NA }.  The
\* assignment is made inside the handler function, so it binds a copy of
\* frontier local to the handler; efficient_frontier's frontier is the
\* value the handler leaves behind.
ErrorHandler(fr, k) ==
    LET handlerLocal == [fr EXCEPT ![k].na = TRUE]
    IN  fr

\* Line 73: na.omit drops the rows that hold NA or NaN.
NaOmit(fr) == SelectSeq(fr, LAMBDA row : ~row.na /\ ~IsNaN(row.sharpe))

\* The covariance matrices the model calls with: asset k has variance k and
\* the assets are uncorrelated; variance 2 and covariance 1 throughout; all
\* assets perfectly correlated with variance 1 (singular).
CovKinds == {"uncorrelated", "correlated", "singular"}

CovMatrix(n, kind) ==
    [r \in 1..n |-> [c \in 1..n |->
        CASE kind = "uncorrelated" -> IF r = c THEN r ELSE 0
          [] kind = "correlated" -> IF r = c THEN 2 ELSE 1
          [] OTHER -> 1]]

\* rf_rate = 0.02, in percent.
RfRate == 2

NoOutcome ==
    [status |-> "none", message |-> "", weights |-> <<>>, unit |-> 1,
     expected_return |-> Whole(0), volatility |-> 0, sharpe_ratio |-> 0]

NoOptim == [status |-> "none", message |-> "", par |-> <<>>, convergence |-> 0]

IdleOpt ==
    /\ opc = "idle"
    /\ target_returns = <<>>
    /\ frontier = <<>>
    /\ fi = 0
    /\ outcomes = <<>>
    /\ frontierOut = <<>>
    /\ mkTarget = Whole(0)
    /\ mkOutcome = NoOutcome
    /\ msOptim = NoOptim
    /\ msOutcome = NoOutcome

OffOpt ==
    /\ IdleOpt
    /\ expected_returns = <<>>
    /\ cov_matrix = <<>>
    /\ n_portfolios = 0

\* Lines 50-59: efficient_frontier is called.
FrontierStart ==
    /\ opc = "idle"
    /\ target_returns' = TargetReturns(expected_returns, n_portfolios)
    /\ frontier' = [k \in 1..n_portfolios |-> InitialRow(k)]
    /\ fi' = 1
    /\ outcomes' = <<>>
    /\ opc' = "frontier"
    /\ UNCHANGED <<expected_returns, cov_matrix, n_portfolios, frontierOut,
                   mkTarget, mkOutcome, msOptim, msOutcome>>
    /\ UNCHANGED <<mcVars, riskVars, webVars, pxVars, pgVars>>

\* Lines 61-70: one pass of the loop, the tryCatch included.
FrontierStep ==
    /\ opc = "frontier"
    /\ fi <= n_portfolios
    /\ LET opt == markowitz_optimization(expected_returns, cov_matrix,
                                         target_returns[fi])
       IN  /\ outcomes' = Append(outcomes, opt)
           /\ frontier' = IF opt.status = "ok"
                          THEN [frontier EXCEPT ![fi] = RowOf(fi, opt)]
                          ELSE ErrorHandler(frontier, fi)
    /\ fi' = fi + 1
    /\ UNCHANGED <<opc, expected_returns, cov_matrix, n_portfolios, target_returns,
                   frontierOut, mkTarget, mkOutcome, msOptim, msOutcome>>
    /\ UNCHANGED <<mcVars, riskVars, webVars, pxVars, pgVars>>

\* Lines 72-75: na.omit and return.
FrontierReturn ==
    /\ opc = "frontier"
    /\ fi > n_portfolios
    /\ frontierOut' = NaOmit(frontier)
    /\ opc' = "frontierDone"
    /\ UNCHANGED <<expected_returns, cov_matrix, n_portfolios, target_returns,
                   frontier, fi, outcomes, mkTarget, mkOutcome, msOptim, msOutcome>>
    /\ UNCHANGED <<mcVars, riskVars, webVars, pxVars, pgVars>>

\* The target returns of direct calls: the whole numbers around the range
\* of the expected returns.
TargetDomain == {Whole(t) : t \in 0..(MaxMu + 1)}

\* A direct call of markowitz_optimization with a target return.  An R
\* error leaves the caller without a value.
MarkowitzCall ==
    /\ opc = "idle"
    /\ \E t \in TargetDomain :
          /\ mkTarget' = t
          /\ mkOutcome' = markowitz_optimization(expected_returns, cov_matrix, t)
    /\ opc' = "markowitzDone"
    /\ UNCHANGED <<expected_returns, cov_matrix, n_portfolios, target_returns,
                   frontier, fi, outcomes, frontierOut, msOptim, msOutcome>>
    /\ UNCHANGED <<mcVars, riskVars, webVars, pxVars, pgVars>>

\* Lines 115-121: the objective is finite where the portfolio variance is
\* positive (sqrt of it is the divisor).
ObjectiveFinite(cov, w) == Quad(cov, w) > 0

\* Lines 128-129: lower = 0, upper = 1, at resolution 1 / PUnit.
OptimBox(n) == [1..n -> 0..PUnit]

\* stats::optim(par, fn, method = "L-BFGS-B", lower, upper): some point of
\* the box at which fn was evaluated and finite, with convergence 0
\* (converged) or 1 (iteration limit reached); an error when fn is not
\* finite at a point the search evaluates, the starting point first.
Optim(n, cov) ==
    LET failure == [status |-> "error",
                    message |-> "L-BFGS-B needs finite values of 'fn'",
                    par |-> <<>>, convergence |-> 0]
    IN  IF ~ObjectiveFinite(cov, Ones(n)) THEN {failure}
        ELSE {failure} \cup
             {[status |-> "ok", message |-> "", par |-> p, convergence |-> c] :
                 p \in {q \in OptimBox(n) : ObjectiveFinite(cov, q)}, c \in {0, 1}}

NoNormalize(par) == [num |-> par, den |-> PUnit]

\* Line 132: weights <- result$par / sum(result$par).
NormalizeWeights(par) == [num |-> par, den |-> SumSeq(par)]

\* Lines 132-144.
max_sharpe_result(mu, cov, o) ==
    LET weights == NormalizeWeights(o.par)
        portfolio_return == Dot(weights.num, mu)
        portfolio_variance == Quad(cov, weights.num)
        portfolio_volatility ==
            IF weights.den = 0 THEN NaN
            ELSE VolatilityOf(portfolio_variance, weights.den)
    IN  [status |-> "ok", message |-> "", weights |-> weights.num,
         unit |-> weights.den,
         expected_return |-> [num |-> portfolio_return, den |-> weights.den],
         volatility |-> portfolio_volatility,
         sharpe_ratio |->
             IF IsNaN(portfolio_volatility) \/ portfolio_volatility = 0 THEN NaN
             ELSE GoDiv((portfolio_return - RfRate * weights.den) * 10000,
                        weights.den * portfolio_volatility)]

\* Lines 106-145: max_sharpe_portfolio.
MaxSharpe ==
    /\ opc = "idle"
    /\ \E o \in Optim(Len(expected_returns), cov_matrix) :
          /\ msOptim' = o
          /\ msOutcome' = IF o.status = "error"
                          THEN [NoOutcome EXCEPT !.status = "error",
                                                 !.message = o.message]
                          ELSE max_sharpe_result(expected_returns, cov_matrix, o)
    /\ opc' = "sharpeDone"
    /\ UNCHANGED <<expected_returns, cov_matrix, n_portfolios, target_returns,
                   frontier, fi, outcomes, frontierOut, mkTarget, mkOutcome>>
    /\ UNCHANGED <<mcVars, riskVars, webVars, pxVars, pgVars>>

(***************************************************************************)
(* r/risk_models.R.  Returns are whole numbers of thousandths; a           *)
(* confidence level is confidence / ConfSteps.                             *)
(***************************************************************************)
\* sort(x)
SortNumeric(x) == SortFloat64s(x)

\* stats::quantile(x, p), type 7, for p = pNum / pDen: the order statistics
\* around position 1 + (n - 1) p, interpolated linearly.
Quantile7(x, pNum, pDen) ==
    LET n == Len(x)
        sorted == SortNumeric(x)
        h == (n - 1) * pNum
        lo == (h \div pDen) + 1
        frac == h % pDen
        hi == IF frac = 0 THEN lo ELSE lo + 1
    IN  [num |-> (pDen - frac) * sorted[lo] + frac * sorted[hi], den |-> pDen]

\* Lines 9-18, method = "historical": quantile(returns, 1 - confidence).
calculate_var(rets, conf) == Quantile7(rets, ConfSteps - conf, ConfSteps)

TailStrictlyBelow(rets, var) == SelectSeq(rets, LAMBDA r : r * var.den < var.num)

\* Line 23: returns[returns <= var].
TailOf(rets, var) == SelectSeq(rets, LAMBDA r : r * var.den <= var.num)

\* mean(x): sum(x) / length(x), NaN for an empty x.
MeanOf(x) == [sum |-> SumSeq(x), count |-> Len(x)]

NoFraction == [num |-> 0, den |-> 1]
NoMean == [sum |-> 0, count |-> 1]

ReturnValues == (-MaxReturn)..MaxReturn

IdleRisk ==
    /\ rpc = "idle"
    /\ varValue = NoFraction
    /\ tail = <<>>
    /\ cvar = NoMean

OffRisk ==
    /\ IdleRisk
    /\ returns = <<>>
    /\ confidence = 0

\* Lines 9-18: a direct call of calculate_var (as calculate_risk_metrics
\* makes).
CalculateVar ==
    /\ rpc = "idle"
    /\ varValue' = calculate_var(returns, confidence)
    /\ rpc' = "varDone"
    /\ UNCHANGED <<returns, confidence, tail, cvar>>
    /\ UNCHANGED <<mcVars, optVars, webVars, pxVars, pgVars>>

\* Lines 21-25: calculate_cvar.
CalculateCvar ==
    /\ rpc = "idle"
    /\ LET var == calculate_var(returns, confidence)
       IN  /\ varValue' = var
           /\ tail' = TailOf(returns, var)
           /\ cvar' = MeanOf(TailOf(returns, var))
    /\ rpc' = "cvarDone"
    /\ UNCHANGED <<returns, confidence>>
    /\ UNCHANGED <<mcVars, optVars, webVars, pxVars, pgVars>>

(***************************************************************************)
(* The web tier: the Next.js route handlers that start a pricer or an      *)
(* optimizer subprocess, the Heston page, and the Go API handler of the    *)
(* Monte Carlo simulation.  A request body maps field names to values; a   *)
(* number is a whole number of model units.                                *)
(***************************************************************************)
Undefined == [defined |-> FALSE, val |-> 0]

Num(v) == [defined |-> TRUE, val |-> v]

Values == {Undefined} \cup {Num(v) : v \in (-MaxParam)..MaxParam}

\* JavaScript: !x is true of undefined and of 0.
Truthy(x) == x.defined /\ x.val # 0

\* x === undefined
IsUndefined(x) == ~x.defined

SubprocessRoutes == {"black-scholes", "heston", "monte-carlo", "exotic", "optimize"}

GoRoute == "go-montecarlo"

Routes == SubprocessRoutes \cup {GoRoute}

\* The fields a handler reads from the body.
RouteFields(rt) ==
    CASE rt = "black-scholes" -> {"S", "K", "T", "r", "sigma", "q"}
      [] rt = "heston" -> {"S0", "K", "T", "r", "v0", "kappa", "theta", "sigma",
                           "rho", "q"}
      [] rt = "monte-carlo" -> {"S", "K", "T", "r", "sigma", "n_paths"}
      [] rt = "exotic" -> {"S", "K", "T", "r", "sigma"}
      [] rt = "optimize" -> {"n_assets"}
      [] OTHER -> {"iterations", "jobs"}

\* The fields with a default in the destructuring pattern, and the default.
DefaultedFields == {"q", "n_paths", "n_assets"}

DefaultOf(f) ==
    CASE f = "q" -> 0
      [] f = "n_paths" -> 100000
      [] OTHER -> 10

\* const { ..., q = 0 } = body: undefined takes the default.
WithDefaults(b) ==
    [f \in DOMAIN b |->
        IF f \in DefaultedFields /\ IsUndefined(b[f]) THEN Num(DefaultOf(f)) ELSE b[f]]

\* The request bodies the model sends: a request with every field 1 and the
\* defaulted fields absent, changed in at most MaxFaults fields.
BaseValue(f) == IF f \in DefaultedFields THEN Undefined ELSE Num(1)

Bodies(rt) ==
    LET Fs == RouteFields(rt)
    IN  UNION {{[f \in Fs |-> IF f \in D THEN p[f] ELSE BaseValue(f)] :
                   p \in [D -> Values]} :
               D \in {E \in SUBSET Fs : Cardinality(E) <= MaxFaults}}

\* What the Heston page sends: every state variable is a number, no q.
PageBodies ==
    {b \in Bodies("heston") : \A f \in DOMAIN b : b[f].defined <=> f # "q"}

BlackScholesMissing(b) ==
    ~Truthy(b.S) \/ ~Truthy(b.K) \/ ~Truthy(b.T) \/ IsUndefined(b.r) \/ ~Truthy(b.sigma)

HestonMissingOrFeller(b) ==
    \/ ~Truthy(b.S0) \/ ~Truthy(b.K) \/ ~Truthy(b.T) \/ IsUndefined(b.r)
    \/ ~Truthy(b.v0) \/ ~Truthy(b.kappa) \/ ~Truthy(b.theta) \/ ~Truthy(b.sigma)
    \/ IsUndefined(b.rho)
    \/ 2 * b.kappa.val * b.theta.val < b.sigma.val * b.sigma.val

\* heston/route.ts line 11.
HestonMissing(b) ==
    \/ ~Truthy(b.S0) \/ ~Truthy(b.K) \/ ~Truthy(b.T) \/ IsUndefined(b.r)
    \/ ~Truthy(b.v0) \/ ~Truthy(b.kappa) \/ ~Truthy(b.theta) \/ ~Truthy(b.sigma)
    \/ IsUndefined(b.rho)

MonteCarloMissing(b) ==
    ~Truthy(b.S) \/ ~Truthy(b.K) \/ ~Truthy(b.T) \/ IsUndefined(b.r) \/ ~Truthy(b.sigma)

\* The validation of each route; the exotic and the optimize routes have none.
Rejects(rt, b) ==
    CASE rt = "black-scholes" -> BlackScholesMissing(b)
      [] rt = "heston" -> HestonMissing(b)
      [] rt = "monte-carlo" -> MonteCarloMissing(b)
      [] OTHER -> FALSE

\* The positional arguments of the Black-Scholes script with r and q in
\* each other's place.
SpawnArgumentsExchanged(rt, b) ==
    IF rt = "exotic" THEN b
    ELSE IF rt = "black-scholes"
         THEN [WithDefaults(b) EXCEPT !.r = WithDefaults(b).q, !.q = WithDefaults(b).r]
         ELSE WithDefaults(b)

\* The arguments the subprocess is started with.
SpawnArguments(rt, b) == IF rt = "exotic" THEN b ELSE WithDefaults(b)

\* The routes that register pythonProcess.on('error', ...).
HasErrorListener(rt) == rt \in {"black-scholes", "heston", "exotic"}

\* A response: its status, its error text and the request fields the text
\* names.
NoResponse == [status |-> 0, error |-> "", names |-> {}]

Rejection == [status |-> 400, error |-> "Missing required parameters", names |-> {}]

Success == [status |-> 200, error |-> "", names |-> {}]

Failure(msg) == [status |-> 500, error |-> msg, names |-> {}]

\* The error text of a 500 response after a non-zero exit code.
ExitMessage(rt) ==
    CASE rt = "monte-carlo" -> "Calculation failed: stderr"
      [] rt = "optimize" -> "Optimization failed: stderr"
      [] OTHER -> "Calculation failed"

\* The error text of a 500 response after output that is not JSON.
ParseMessage(rt) ==
    CASE rt = "monte-carlo" -> "Failed to parse calculation result"
      [] rt = "optimize" -> "Failed to parse optimization result"
      [] OTHER -> "Calculation failed"

\* What a subprocess prints: a text of at most MaxOutput characters, here
\* square brackets.
RECURSIVE TextsOfLength(_)
TextsOfLength(n) ==
    IF n = 0 THEN {<<>>}
    ELSE {Append(t, c) : t \in TextsOfLength(n - 1), c \in {"[", "]"}}

Texts == UNION {TextsOfLength(n) : n \in 0..MaxOutput}

ExitCodes == {0, 1}

\* What the subprocess started for a request may print and exit with.  The
\* request with every field 1 is followed through every text and exit
\* code, the others through a JSON value with exit code 0 and through no
\* output with exit code 1.
Runs(rt, b) ==
    IF \A f \in DOMAIN b : b[f] = BaseValue(f)
    THEN [text : Texts, code : ExitCodes]
    ELSE {[text |-> <<"[", "]">>, code |-> 0], [text |-> <<>>, code |-> 1]}

\* JSON.parse of a text of brackets: the JSON values without a comma or a
\* scalar are the arrays [], [[]], [[[]]], ...
ParsesAsJSON(t) ==
    /\ Len(t) >= 2
    /\ Len(t) % 2 = 0
    /\ \A k \in 1..Len(t) : t[k] = IF 2 * k <= Len(t) THEN "[" ELSE "]"

\* stdout = data.toString() + stdout
StdoutPrepend(out, data) == data \o out

\* stdout += data.toString()

StdoutAppend(out, data) == out \o data

NoChild == [text |-> <<>>, code |-> 0, emitted |-> <<>>, fired |-> <<>>]

\* new Promise(...): resolve and reject settle a pending promise and do
\* nothing to a settled one.
Pending == [state |-> "pending", outcome |-> NoResponse]

SettleAgain(p, outcome) == [state |-> "settled", outcome |-> outcome]

Settle(p, outcome) ==
    IF p.state = "pending" THEN [state |-> "settled", outcome |-> outcome] ELSE p

Fired(e) == \E k \in 1..Len(child.fired) : child.fired[k] = e

NoPage == [loading |-> FALSE, error |-> FALSE, result |-> FALSE]

NoSim == [iterations |-> 0, jobs |-> 0, paths |-> 0, ran |-> FALSE]

IdleWeb ==
    /\ spawned = <<>>
    /\ response = NoResponse
    /\ page = NoPage
    /\ sim = NoSim
    /\ child = NoChild
    /\ stdout = <<>>
    /\ promise = Pending

OffWeb ==
    /\ IdleWeb
    /\ wpc = "idle"
    /\ origin = "none"
    /\ route = "none"
    /\ body = <<>>

\* options/heston/page.tsx line 186: the warning is rendered when
\* (2 * kappa * theta) < sigma**2.
FellerWarningShown(b) == 2 * b.kappa.val * b.theta.val < b.sigma.val * b.sigma.val

\* options/heston/page.tsx line 195: disabled={loading}.
ButtonDisabled == page.loading

\* options/heston/page.tsx lines 37-56: calculateHeston, up to the fetch.
calculateHeston ==
    /\ wpc = "page"
    /\ ~ButtonDisabled
    /\ page' = [page EXCEPT !.loading = TRUE, !.error = FALSE]
    /\ spawned' = <<>>
    /\ response' = NoResponse
    /\ child' = NoChild
    /\ stdout' = <<>>
    /\ promise' = Pending
    /\ wpc' = "received"
    /\ UNCHANGED <<origin, route, body, sim>>
    /\ UNCHANGED <<mcVars, optVars, riskVars, pxVars, pgVars>>

\* options/heston/page.tsx lines 58-65: the response arrives.
PageShow ==
    /\ wpc = "responded"
    /\ origin = "page"
    /\ page' = [loading |-> FALSE,
                error |-> response.status # 200,
                result |-> page.result \/ response.status = 200]
    /\ wpc' = "page"
    /\ UNCHANGED <<origin, route, body, spawned, response, sim, child, stdout,
                   promise>>
    /\ UNCHANGED <<mcVars, optVars, riskVars, pxVars, pgVars>>

\* POST of a subprocess-backed route, from request.json() to the spawn and
\* the registration of the listeners.
Post ==
    /\ wpc = "received"
    /\ route \in SubprocessRoutes
    /\ IF Rejects(route, body)
       THEN /\ response' = Rejection
            /\ wpc' = "responded"
            /\ UNCHANGED <<spawned, child>>
       ELSE /\ spawned' = Append(spawned, SpawnArguments(route, body))
            /\ \E run \in Runs(route, body) :
                  child' = [text |-> run.text, code |-> run.code,
                            emitted |-> <<>>, fired |-> <<>>]
            /\ wpc' = "running"
            /\ UNCHANGED response
    /\ UNCHANGED <<origin, route, body, page, sim, stdout, promise>>
    /\ UNCHANGED <<mcVars, optVars, riskVars, pxVars, pgVars>>

\* pythonProcess.stdout.on('data', ...): the child's next chunk, any
\* non-empty prefix of what it still prints.  No chunk follows 'close'.
OnData ==
    /\ wpc \in {"running", "responded"}
    /\ spawned # <<>>
    /\ ~Fired("close")
    /\ \E n \in 1..Len(child.text) :
          LET data == SubSeq(child.text, 1, n)
          IN  /\ stdout' = StdoutAppend(stdout, data)
              /\ child' = [child EXCEPT
                               !.text = SubSeq(child.text, n + 1, Len(child.text)),
                               !.emitted = Append(child.emitted, data)]
    /\ UNCHANGED <<wpc, origin, route, body, spawned, response, page, sim,
                   promise>>
    /\ UNCHANGED <<mcVars, optVars, riskVars, pxVars, pgVars>>

\* What the handler answers once the promise it awaits is settled.
Answered(outcome) ==
    /\ promise' = Settle(promise, outcome)
    /\ IF promise.state = "pending"
       THEN /\ response' = promise'.outcome
            /\ wpc' = "responded"
       ELSE UNCHANGED <<response, wpc>>

\* The ChildProcess emits 'error' (it could not be started, or killed),
\* before or after its 'close'.  With a listener the promise is rejected
\* and the catch block answers 500; without one the EventEmitter throws
\* outside every try block.
OnSpawnError ==
    /\ wpc \in {"running", "responded"}
    /\ spawned # <<>>
    /\ ~Fired("error")
    /\ child' = [child EXCEPT !.fired = Append(child.fired, "error")]
    /\ IF HasErrorListener(route)
       THEN Answered(Failure("Calculation failed"))
       ELSE /\ wpc' = "crashed"
            /\ UNCHANGED <<response, promise>>
    /\ UNCHANGED <<origin, route, body, spawned, page, sim, stdout>>
    /\ UNCHANGED <<mcVars, optVars, riskVars, pxVars, pgVars>>

\* pythonProcess.on('close', ...): emitted once the child has ended and
\* its streams are closed.
OnClose ==
    /\ wpc \in {"running", "responded"}
    /\ spawned # <<>>
    /\ ~Fired("close")
    /\ child.text = <<>> \/ Fired("error")
    /\ child' = [child EXCEPT !.fired = Append(child.fired, "close")]
    /\ Answered(IF child.code # 0 THEN Failure(ExitMessage(route))
                ELSE IF ParsesAsJSON(stdout) THEN Success
                ELSE Failure(ParseMessage(route)))
    /\ UNCHANGED <<origin, route, body, spawned, page, sim, stdout>>
    /\ UNCHANGED <<mcVars, optVars, riskVars, pxVars, pgVars>>

\* The Go API handler: lines 119 and 122.
DefaultIterations == 10000

DefaultJobs == 4

\* json.Decode leaves the field of an absent key at its zero value.
Decoded(x) == IF x.defined THEN x.val ELSE 0

\* simulator.go lines 14 and 19-23, 30: the length of worker k's chunk.
ChunkLength(it, jb, k) ==
    LET cs == GoDiv(it, jb)
        start == k * cs
        end == IF k = jb - 1 THEN it ELSE start + cs
    IN  IF end > start THEN end - start ELSE 0

RECURSIVE PathsOfWorkers(_, _, _)
PathsOfWorkers(it, jb, k) ==
    IF k < 0 THEN 0 ELSE ChunkLength(it, jb, k) + PathsOfWorkers(it, jb, k - 1)

\* simulator.go lines 17-34: the calls of simulatePortfolioReturn made by
\* workers 0..jobs-1.
PathsSimulated(it, jb) == PathsOfWorkers(it, jb, jb - 1)

\* runMonteCarloAPI.  make([]float64, iterations) panics on a negative
\* length; net/http recovers the panic and closes the connection.
runMonteCarloAPI ==
    /\ wpc = "received"
    /\ route = GoRoute
    /\ LET decodedIterations == Decoded(body.iterations)
           decodedJobs == Decoded(body.jobs)
           it == IF decodedIterations = 0 THEN DefaultIterations ELSE decodedIterations
           jb == IF decodedJobs = 0 THEN DefaultJobs ELSE decodedJobs
       IN  IF it < 0
           THEN /\ sim' = [iterations |-> it, jobs |-> jb, paths |-> 0, ran |-> FALSE]
                /\ wpc' = "crashed"
                /\ UNCHANGED response
           ELSE /\ sim' = [iterations |-> it, jobs |-> jb,
                           paths |-> PathsSimulated(it, jb), ran |-> TRUE]
                /\ response' = Success
                /\ wpc' = "responded"
    /\ UNCHANGED <<origin, route, body, spawned, page, child, stdout, promise>>
    /\ UNCHANGED <<mcVars, optVars, riskVars, pxVars, pgVars>>

(***************************************************************************)
(* The pricing scripts the routes start: black_scholes_api.py and          *)
(* exotic_api.py.  S and K are tens of currency units, T whole years; r, q *)
(* and sigma are tenths.  Amounts, rates and d1, d2 are float64 values in  *)
(* thousandths.                                                            *)
(***************************************************************************)
Milli == 1000

Tenth == 100

Ten == 10000

\* x * y and x / y of two values in thousandths.
FMul(x, y) == RoundNearestEven(GoDiv(x * y, Milli))

FDiv(x, y) == RoundNearestEven(GoDiv(x * Milli, y))

\* math.exp: the series 1 + x + x^2/2! + ..., summed until a term vanishes.
RECURSIVE ExpSeries(_, _, _)
ExpSeries(x, k, term) ==
    IF term = 0 THEN 0
    ELSE term + ExpSeries(x, k + 1, GoDiv(term * x, Milli * k))

Exp(x) == RoundNearestEven(ExpSeries(x, 1, Milli))

\* math.log of a whole number n >= 1: ln n = ln(n - 1) + 2 atanh(1 / (2n - 1)),
\* atanh y = y + y^3/3 + y^5/5 + ...
RECURSIVE AtanhSeries(_, _, _)
AtanhSeries(ysq, k, power) ==
    IF power = 0 THEN 0
    ELSE GoDiv(power, k) + AtanhSeries(ysq, k + 2, GoDiv(power * ysq, Milli))

RECURSIVE Log(_)
Log(n) ==
    IF n <= 1 THEN 0
    ELSE LET y == GoDiv(Milli, 2 * n - 1)
         IN  Log(n - 1) + 2 * AtanhSeries(GoDiv(y * y, Milli), 1, y)

\* The standard normal distribution function N at 0, 0.5, ..., 3.5, and N
\* between two of these points by linear interpolation.
NormalTable == <<500, 691, 841, 933, 977, 994, 999, 1000>>

NormalCdf(d) ==
    LET a == Abs(d)
        k == a \div 500
        n == IF k + 2 > Len(NormalTable) THEN Milli
             ELSE NormalTable[k + 1]
                  + ((NormalTable[k + 2] - NormalTable[k + 1]) * (a % 500)) \div 500
    IN  IF d < 0 THEN Milli - n ELSE n

OptionTypes == {"call", "put"}

\* S > 0, K > 0, T > 0 and sigma > 0, every argument a number.
InDomain(a) ==
    /\ \A f \in DOMAIN a : a[f].defined
    /\ a.S.val > 0
    /\ a.K.val > 0
    /\ a.T.val > 0
    /\ a.sigma.val > 0

\* S e^(-qT) and K e^(-rT).
DiscountedSpot(a) == FMul(a.S.val * Ten, Exp(-(a.q.val * Tenth * a.T.val)))

DiscountedStrike(a) == FMul(a.K.val * Ten, Exp(-(a.r.val * Tenth * a.T.val)))

\* sigma sqrt(T)
TotalVolatility(a) == FMul(a.sigma.val * Tenth, FSqrt(a.T.val * Milli * Milli))

\* d1 = (ln(S/K) + (r - q + sigma^2 / 2) T) / (sigma sqrt(T))
D1(a) ==
    LET sigma == a.sigma.val * Tenth
        carry == (a.r.val - a.q.val) * Tenth + GoDiv(FMul(sigma, sigma), 2)
    IN  FDiv(FAdd(Log(a.S.val) - Log(a.K.val), carry * a.T.val),
             TotalVolatility(a))

D2(a) == FSub(D1(a), TotalVolatility(a))

\* C = S e^(-qT) N(d1) - K e^(-rT) N(d2)
CallPrice(a) ==
    FSub(FMul(DiscountedSpot(a), NormalCdf(D1(a))),
         FMul(DiscountedStrike(a), NormalCdf(D2(a))))

\* P = C - S e^(-qT) + K e^(-rT)
PutPrice(a) == FAdd(FSub(CallPrice(a), DiscountedSpot(a)), DiscountedStrike(a))

OptionPrice(a, ty) == IF ty = "call" THEN CallPrice(a) ELSE PutPrice(a)

NoQuotes == [ty \in {} |-> 0]

NoSums == [n |-> 0, vanilla |-> 0, barrier |-> 0, last |-> <<0, 0>>]

NoExotic == [vanilla |-> 0, barrier |-> 0]

IdlePx ==
    /\ quotes = NoQuotes
    /\ path = <<>>
    /\ sums = NoSums
    /\ exotic = NoExotic

OffPx ==
    /\ IdlePx
    /\ xpc = "off"
    /\ argv = <<>>
    /\ barrier = 0

\* The route starts the script with the arguments of its spawn call.
ScriptStarts ==
    /\ xpc = "spawn"
    /\ argv' = SpawnArguments(route, body)
    /\ xpc' = route
    /\ UNCHANGED <<quotes, barrier, path, sums, exotic>>
    /\ UNCHANGED <<mcVars, optVars, riskVars, webVars, pgVars>>

\* black_scholes_api.py prices one option type; the same request is sent
\* once for each.
BlackScholesQuote ==
    /\ xpc = "black-scholes"
    /\ InDomain(argv)
    /\ \E ty \in OptionTypes \ DOMAIN quotes :
          quotes' = [t \in DOMAIN quotes \cup {ty} |->
                        IF t = ty THEN OptionPrice(argv, ty) ELSE quotes[t]]
    /\ UNCHANGED <<xpc, argv, barrier, path, sums, exotic>>
    /\ UNCHANGED <<mcVars, optVars, riskVars, webVars, pgVars>>

\* A domain error: the script ends with a non-zero exit code and no price.
ScriptFails ==
    /\ xpc \in {"black-scholes", "exotic"}
    /\ ~InDomain(argv)
    /\ xpc' = "failed"
    /\ UNCHANGED <<argv, quotes, barrier, path, sums, exotic>>
    /\ UNCHANGED <<mcVars, optVars, riskVars, webVars, pgVars>>

\* The prices a simulated path takes, in tens of currency units.
PriceGrid == 1..(MaxParam + 1)

Max(a, b) == IF a >= b THEN a ELSE b

RECURSIVE PathMax(_)
PathMax(p) == IF Len(p) = 1 THEN p[1] ELSE Max(Head(p), PathMax(Tail(p)))

\* The vanilla European call payoff max(S_T - K, 0), in thousandths.
VanillaPayoff(p, K) == Max(p[Len(p)] - K, 0) * Ten

\* Up-and-out: 1 when no monitored step of the path reached the barrier.
Indicator(p, B) == IF \A k \in 1..Len(p) : p[k] < B THEN 1 ELSE 0

\* The payoff of the highest price of the path instead of the last.
BarrierPayoffOfMaximum(p, K, B) == Max(PathMax(p) - K, 0) * Ten * Indicator(p, B)

\* payoff = vanilla European payoff x indicator(barrier condition)
BarrierPayoff(p, K, B) == VanillaPayoff(p, K) * Indicator(p, B)

\* The discounted mean of n payoffs whose sum is sum.
DiscountedMean(a, sum, n) ==
    FMul(Exp(-(a.r.val * Tenth * a.T.val)), FDivCount(sum, n))

\* exotic_api.py: a new path starts at S.
StartPath ==
    /\ xpc \in {"exotic", "paid"}
    /\ InDomain(argv)
    /\ sums.n < MaxPaths
    /\ path' = <<argv.S.val>>
    /\ xpc' = "stepping"
    /\ UNCHANGED <<argv, quotes, barrier, sums, exotic>>
    /\ UNCHANGED <<mcVars, optVars, riskVars, webVars, pgVars>>

\* One discretization step: the next price of the path.
SimulateStep ==
    /\ xpc = "stepping"
    /\ Len(path) < MaxSteps + 1
    /\ \E price \in PriceGrid : path' = Append(path, price)
    /\ UNCHANGED <<xpc, argv, quotes, barrier, sums, exotic>>
    /\ UNCHANGED <<mcVars, optVars, riskVars, webVars, pgVars>>

\* The path is complete: both payoffs are evaluated on it and summed.
PathPayoff ==
    /\ xpc = "stepping"
    /\ Len(path) = MaxSteps + 1
    /\ LET v == VanillaPayoff(path, argv.K.val)
           b == BarrierPayoff(path, argv.K.val, barrier)
       IN  sums' = [n |-> sums.n + 1,
                    vanilla |-> FAdd(sums.vanilla, v),
                    barrier |-> FAdd(sums.barrier, b),
                    last |-> <<v, b>>]
    /\ xpc' = "paid"
    /\ UNCHANGED <<argv, quotes, barrier, path, exotic>>
    /\ UNCHANGED <<mcVars, optVars, riskVars, webVars, pgVars>>

\* The two prices over the paths simulated.
ExoticPrice ==
    /\ xpc = "paid"
    /\ exotic' = [vanilla |-> DiscountedMean(argv, sums.vanilla, sums.n),
                  barrier |-> DiscountedMean(argv, sums.barrier, sums.n)]
    /\ xpc' = "priced"
    /\ UNCHANGED <<argv, quotes, barrier, path, sums>>
    /\ UNCHANGED <<mcVars, optVars, riskVars, webVars, pgVars>>

(***************************************************************************)
(* The browser pages: the portfolio page (web/app/portfolio/page.tsx) and  *)
(* the dashboard (web/app/page.tsx).  A fund is its id and its fund_name;  *)
(* an id is a number, null is 0.                                           *)
(***************************************************************************)
Null == 0

NoFund == [id |-> Null, fund_name |-> ""]

\* useState<Fund[]>([...]): the three funds the page starts with.
InitialFunds ==
    <<[id |-> 1, fund_name |-> "Tech Growth Fund I"],
      [id |-> 2, fund_name |-> "Healthcare Ventures II"],
      [id |-> 3, fund_name |-> "Energy Transition Fund"]>>

\* Date.now() when the page is opened: later than every initial id.
PageOpened == 10

\* Date.now() does not go back: a callback reads the instant of the last
\* reading or a later one, a click of the user a later one.
Instants == now..(PageOpened + MaxElapsed)

ClickInstants == (now + 1)..(PageOpened + MaxElapsed)

\* The fund_name column of the rows of a CSV file: every row names a fund,
\* but the last may be the blank line the file ends with.
RowsOfLength(n) ==
    {[k \in 1..n |-> IF k = n THEN last ELSE "Imported"] :
        last \in {"", "Imported"}}

Files == UNION {RowsOfLength(n) : n \in 1..MaxRows}

\* results.data.map((row, index) => ({id: Date.now() + index, ...}))
\*     .filter(f => f.fund_name)
ImportedFunds(rows, t) ==
    LET named(f) == f.fund_name # ""
    IN  SelectSeq([k \in 1..Len(rows) |->
                        [id |-> t + (k - 1), fund_name |-> rows[k]]], named)

\* The row of a fund shows Save and Cancel when editingId === fund.id &&
\* editForm, else Edit and Delete.
RowInEditMode(f) == editingId = f.id /\ editForm # NoFund

OffPages ==
    /\ mounted = "none"
    /\ funds = <<>>
    /\ editingId = Null
    /\ editForm = NoFund
    /\ now = 0
    /\ parsing = <<>>
    /\ actionsLeft = 0
    /\ apiStatus = "checking"
    /\ loading = FALSE
    /\ simulationData = FALSE
    /\ fetches = <<>>

\* One action of the user on the portfolio page.
Act ==
    /\ mounted = "portfolio"
    /\ actionsLeft > 0
    /\ actionsLeft' = actionsLeft - 1
    /\ UNCHANGED <<mounted, apiStatus, loading, simulationData, fetches>>
    /\ UNCHANGED <<mcVars, optVars, riskVars, webVars, pxVars>>

handleEdit ==
    /\ Act
    /\ \E k \in 1..Len(funds) :
          /\ ~RowInEditMode(funds[k])
          /\ editingId' = funds[k].id
          /\ editForm' = funds[k]
    /\ UNCHANGED <<funds, now, parsing>>

\* onChange of the fund_name input of the row in edit mode.
ChangeName ==
    /\ Act
    /\ \E k \in 1..Len(funds) : RowInEditMode(funds[k])
    /\ editForm' = [editForm EXCEPT !.fund_name = "Renamed"]
    /\ UNCHANGED <<funds, editingId, now, parsing>>

handleSave ==
    /\ Act
    /\ \E k \in 1..Len(funds) : RowInEditMode(funds[k])
    /\ IF editForm # NoFund
       THEN /\ funds' = [k \in 1..Len(funds) |->
                            IF funds[k].id = editForm.id THEN editForm ELSE funds[k]]
            /\ editingId' = Null
            /\ editForm' = NoFund
       ELSE UNCHANGED <<funds, editingId, editForm>>
    /\ UNCHANGED <<now, parsing>>

handleCancel ==
    /\ Act
    /\ \E k \in 1..Len(funds) : RowInEditMode(funds[k])
    /\ editingId' = Null
    /\ editForm' = NoFund
    /\ UNCHANGED <<funds, now, parsing>>

handleDelete ==
    /\ Act
    /\ \E k \in 1..Len(funds) :
          /\ ~RowInEditMode(funds[k])
          /\ LET others(f) == f.id # funds[k].id
             IN  funds' = SelectSeq(funds, others)
    /\ UNCHANGED <<editingId, editForm, now, parsing>>

handleAdd ==
    /\ Act
    /\ \E t \in ClickInstants :
          LET newFund == [id |-> t, fund_name |-> "New Fund"]
          IN  /\ now' = t
              /\ funds' = Append(funds, newFund)
              /\ editingId' = newFund.id
              /\ editForm' = newFund
    /\ UNCHANGED parsing

\* handleImportCSV: Papa.parse starts to read the file; its complete
\* callback is the one of this render.
handleImportCSV ==
    /\ Act
    /\ \E file \in Files :
          parsing' = Append(parsing, [funds |-> funds, rows |-> file])
    /\ UNCHANGED <<funds, editingId, editForm, now>>

\* The complete callback of a file that has been read.
complete ==
    /\ mounted = "portfolio"
    /\ \E k \in 1..Len(parsing), t \in Instants :
          /\ now' = t
          /\ funds' = parsing[k].funds \o ImportedFunds(parsing[k].rows, t)
          /\ parsing' = [j \in 1..(Len(parsing) - 1) |->
                             IF j < k THEN parsing[j] ELSE parsing[j + 1]]
    /\ UNCHANGED <<mounted, editingId, editForm, actionsLeft, apiStatus, loading,
                   simulationData, fetches>>
    /\ UNCHANGED <<mcVars, optVars, riskVars, webVars, pxVars>>

\* What a fetch of the dashboard comes back with.
FetchOutcomes == {"healthy", "unhealthy", "failed"}

\* Without the apiStatus test: disabled={loading}.
RunButtonDisabledWhileLoading == loading

\* disabled={loading || apiStatus !== 'online'}
RunButtonDisabled == loading \/ apiStatus # "online"

Dashboard ==
    /\ mounted = "dashboard"
    /\ UNCHANGED <<mounted, funds, editingId, editForm, now, parsing>>
    /\ UNCHANGED <<mcVars, optVars, riskVars, webVars, pxVars>>

\* fetches without its k-th element.
Settled(k) ==
    [j \in 1..(Len(fetches) - 1) |-> IF j < k THEN fetches[j] ELSE fetches[j + 1]]

\* checkApiHealth, from the response of /api/health on.
checkApiHealth ==
    /\ Dashboard
    /\ \E k \in 1..Len(fetches) :
          /\ fetches[k] = "/api/health"
          /\ fetches' = Settled(k)
    /\ \E o \in FetchOutcomes :
          apiStatus' = IF o = "healthy" THEN "online" ELSE "offline"
    /\ UNCHANGED <<loading, simulationData, actionsLeft>>

\* A click on Run Simulation: runMonteCarloSimulation up to its fetch.
runMonteCarloSimulation ==
    /\ Dashboard
    /\ actionsLeft > 0
    /\ ~RunButtonDisabled
    /\ actionsLeft' = actionsLeft - 1
    /\ loading' = TRUE
    /\ fetches' = Append(fetches, "/api/simulate")
    /\ UNCHANGED <<apiStatus, simulationData>>

\* runMonteCarloSimulation from the response on: setSimulationData(data)
\* or the catch block, then finally setLoading(false).
SimulationSettles ==
    /\ Dashboard
    /\ \E k \in 1..Len(fetches) :
          /\ fetches[k] = "/api/simulate"
          /\ fetches' = Settled(k)
    /\ \E o \in FetchOutcomes :
          simulationData' = IF o = "failed" THEN simulationData ELSE TRUE
    /\ loading' = FALSE
    /\ UNCHANGED <<apiStatus, actionsLeft>>

(***************************************************************************)
(* Specifications                                                          *)
(***************************************************************************)
OffMC == InitCall /\ iterations = 1 /\ mean = 0 /\ stdDev = 1 /\ callsLeft = 0

\* One call of runMonteCarloSimulation.
InitMC ==
    /\ InitCall
    /\ iterations \in 1..MaxIterations
    /\ mean \in 0..MaxMean
    /\ stdDev \in 0..MaxStdDev
    /\ callsLeft = 1
    /\ OffOpt
    /\ OffRisk
    /\ OffWeb
    /\ OffPx
    /\ OffPages

\* The same caller calling twice with the same iterations, mean and stdDev.
InitRuns ==
    /\ InitCall
    /\ iterations \in 1..MaxIterations
    /\ mean \in 0..MaxMean
    /\ stdDev \in 0..MaxStdDev
    /\ callsLeft = 2
    /\ OffOpt
    /\ OffRisk
    /\ OffWeb
    /\ OffPx
    /\ OffPages

NextMC ==
    \/ Call
    \/ Spawn
    \/ LoopExit
    \/ Reduce
    \/ Return
    \/ \E w \in 1..Len(workers) : WorkerSeed(w)
    \/ \E w \in 1..Len(workers) : WorkerIter(w)
    \/ \E w \in 1..Len(workers) : WorkerDone(w)

SpecMC == InitMC /\ [][NextMC]_vars

SpecRuns == InitRuns /\ [][NextMC]_vars

\* The calls of r/optimization.R on one set of expected returns and one
\* covariance matrix.
InitOpt ==
    /\ IdleOpt
    /\ \E n \in 2..MaxAssets :
          /\ expected_returns \in [1..n -> 1..MaxMu]
          /\ cov_matrix \in {CovMatrix(n, kind) : kind \in CovKinds}
    /\ n_portfolios \in 1..MaxPortfolios
    /\ OffMC
    /\ OffRisk
    /\ OffWeb
    /\ OffPx
    /\ OffPages

NextOpt ==
    \/ FrontierStart
    \/ FrontierStep
    \/ FrontierReturn
    \/ MarkowitzCall
    \/ MaxSharpe

SpecOpt == InitOpt /\ [][NextOpt]_vars

\* The calls of r/risk_models.R on one scenario set and confidence level.
InitRisk ==
    /\ IdleRisk
    /\ \E n \in 1..MaxScenarios : returns \in [1..n -> ReturnValues]
    /\ confidence \in 0..ConfSteps
    /\ OffMC
    /\ OffOpt
    /\ OffWeb
    /\ OffPx
    /\ OffPages

NextRisk ==
    \/ CalculateVar
    \/ CalculateCvar

SpecRisk == InitRisk /\ [][NextRisk]_vars

\* One session of a page: the portfolio page as constructed, or the
\* dashboard with the health check of its mount effect in flight.
InitPages ==
    /\ mounted \in {"portfolio", "dashboard"}
    /\ funds = IF mounted = "portfolio" THEN InitialFunds ELSE <<>>
    /\ editingId = Null
    /\ editForm = NoFund
    /\ now = PageOpened
    /\ parsing = <<>>
    /\ actionsLeft = MaxActions
    /\ apiStatus = "checking"
    /\ loading = FALSE
    /\ simulationData = FALSE
    /\ fetches = IF mounted = "dashboard" THEN <<"/api/health">> ELSE <<>>
    /\ OffMC
    /\ OffOpt
    /\ OffRisk
    /\ OffWeb
    /\ OffPx

NextPages ==
    \/ handleEdit
    \/ ChangeName
    \/ handleSave
    \/ handleCancel
    \/ handleDelete
    \/ handleAdd
    \/ handleImportCSV
    \/ complete
    \/ checkApiHealth
    \/ runMonteCarloSimulation
    \/ SimulationSettles

SpecPages == InitPages /\ [][NextPages]_vars

\* One run of a pricing script with the arguments its route passes: the
\* Black-Scholes script for a request the route accepts, priced as a call
\* and as a put; the exotic script for an up-and-out barrier call.
InitPricing ==
    /\ IdlePx
    /\ xpc = "spawn"
    /\ argv = <<>>
    /\ IdleWeb
    /\ wpc = "running"
    /\ origin = "direct"
    /\ \/ /\ route = "black-scholes"
          /\ body \in {b \in Bodies(route) : ~Rejects(route, b)}
          /\ barrier = 0
       \/ /\ route = "exotic"
          /\ body \in Bodies(route)
          /\ barrier \in PriceGrid
    /\ OffMC
    /\ OffOpt
    /\ OffRisk
    /\ OffPages

NextPricing ==
    \/ ScriptStarts
    \/ BlackScholesQuote
    \/ ScriptFails
    \/ StartPath
    \/ SimulateStep
    \/ PathPayoff
    \/ ExoticPrice

SpecPricing == InitPricing /\ [][NextPricing]_vars

\* One request to a route, or one session of the Heston page.
InitWeb ==
    /\ IdleWeb
    /\ \/ /\ origin = "direct"
          /\ wpc = "received"
          /\ route \in Routes
          /\ body \in Bodies(route)
       \/ /\ origin = "page"
          /\ wpc = "page"
          /\ route = "heston"
          /\ body \in PageBodies
    /\ OffMC
    /\ OffOpt
    /\ OffRisk
    /\ OffPx
    /\ OffPages

NextWeb ==
    \/ calculateHeston
    \/ PageShow
    \/ Post
    \/ OnData
    \/ OnSpawnError
    \/ OnClose
    \/ runMonteCarloAPI

SpecWeb == InitWeb /\ [][NextWeb]_vars

\* The runtimes run a handler that can run: the event loop delivers the
\* child's events, the browser delivers the response.
SpecWebLive == InitWeb /\ [][NextWeb]_vars /\ WF_vars(NextWeb)

(***************************************************************************)
(* Properties of r/optimization.R                                          *)
(***************************************************************************)
MuLow == MinOf(SeqRange(expected_returns))
MuHigh == MaxOf(SeqRange(expected_returns))

\* w / unit sums to 1 and has expected return num / den.
MeetsBudgetAndTarget(o, target) ==
    /\ SumSeq(o.weights) = o.unit
    /\ Dot(o.weights, expected_returns) * target.den = target.num * o.unit

\* C6: every row efficient_frontier returns belongs to a target at which
\* markowitz_optimization succeeded and is the row made from that result.
C6_FailedTargetsSkipped ==
    opc = "frontierDone" =>
        \A r \in 1..Len(frontierOut) :
            LET row == frontierOut[r]
            IN  /\ outcomes[row.name].status = "ok"
                /\ row = RowOf(row.name, outcomes[row.name])

C17_UnconvergedIterateIsTagged ==
    (opc = "sharpeDone" /\ msOptim.status = "ok" /\ msOptim.convergence = 1)
        => msOutcome # max_sharpe_result(expected_returns, cov_matrix,
                                         [msOptim EXCEPT !.convergence = 0])

\* a <= b for fractions with positive denominators.
FracLeq(a, b) == a.num * b.den <= b.num * a.den

FracEq(a, b) == a.num * b.den = b.num * a.den

\* C19: efficient_frontier returns at most n_portfolios rows; the targets
\* start at min(mu) and, when there are two or more, end at max(mu); the
\* return of every row is one of the targets; and the rows are in
\* non-decreasing order of return.
C19_FrontierSweepsRangeInOrder ==
    opc = "frontierDone" =>
        /\ Len(frontierOut) <= n_portfolios
        /\ FracEq(target_returns[1], Whole(MuLow))
        /\ n_portfolios >= 2 => FracEq(target_returns[n_portfolios], Whole(MuHigh))
        /\ \A r \in 1..Len(frontierOut) :
               \E k \in 1..n_portfolios :
                   FracEq(frontierOut[r].return, target_returns[k])
        /\ \A r \in 1..(Len(frontierOut) - 1) :
               FracLeq(frontierOut[r].return, frontierOut[r + 1].return)

(***************************************************************************)
(* Properties of r/risk_models.R                                           *)
(***************************************************************************)
\* C10: the set calculate_cvar averages over is not empty, and its mean is
\* at most the historical VaR of the same returns and confidence level
\* (returns are signed, so a lower return is the more severe loss).
C10_CvarAtLeastAsSevereAsVar ==
    rpc = "cvarDone" =>
        /\ cvar.count >= 1
        /\ Len(tail) = cvar.count
        /\ varValue = calculate_var(returns, confidence)
        /\ cvar.sum * varValue.den <= varValue.num * cvar.count

C10_Witness ==
    /\ rpc = "cvarDone"
    /\ Len(returns) >= 3
    /\ Len(tail) >= 2
    /\ Len(tail) < Len(returns)
    /\ cvar.sum * varValue.den < varValue.num * cvar.count


(***************************************************************************)
(* Properties of the web tier                                              *)
(***************************************************************************)
PricingRoutes == {"black-scholes", "heston", "monte-carlo", "exotic"}

\* Spot, strike, maturity, rate and volatility under each route's names.
MarketParameters(rt) ==
    IF rt = "heston" THEN {"S0", "K", "T", "r", "v0"}
    ELSE {"S", "K", "T", "r", "sigma"}

\* C11: a request to a pricing route whose body lacks a market parameter
\* never has a subprocess started for it, and its response is an error.
C11_ValidationPrecedesSpawn ==
    (route \in PricingRoutes
        /\ \E f \in MarketParameters(route) : IsUndefined(body[f]))
      => /\ spawned = <<>>
         /\ wpc \notin {"running", "crashed"}
         /\ wpc = "responded" => response.status = 400

\* The fields of a Heston body that are outside their domain: a correlation
\* outside [-1, 1]; a negative strike, maturity, variance or volatility.
HestonOffendingFields(b) ==
    {f \in {"rho"} : b[f].defined /\ (b[f].val < -1 \/ b[f].val > 1)}
        \cup {f \in {"K", "T", "v0", "theta", "sigma"} : b[f].defined /\ b[f].val < 0}

\* C12: a Heston request with a field outside its domain never has the
\* pricer started for it, and is answered 400 with a text that names an
\* offending field.
C12_HestonDomainErrorsRejected ==
    (route = "heston" /\ HestonOffendingFields(body) # {})
      => /\ spawned = <<>>
         /\ wpc = "responded" =>
                /\ response.status = 400
                /\ response.names \cap HestonOffendingFields(body) # {}

\* A Black-Scholes body within the domain of the spec: S, K, sigma > 0,
\* T >= 0, any r and any q.
BlackScholesInDomain(b) ==
    /\ b.S.defined /\ b.S.val > 0
    /\ b.K.defined /\ b.K.val > 0
    /\ b.sigma.defined /\ b.sigma.val > 0
    /\ b.T.defined /\ b.T.val >= 0
    /\ b.r.defined

\* C13: a Black-Scholes request within the domain, T = 0, r = 0 and q = 0
\* included, is passed to the pricer and is not answered 400.
C13_ZeroMaturityAccepted ==
    (route = "black-scholes" /\ BlackScholesInDomain(body) /\ wpc # "received")
      => /\ spawned # <<>>
         /\ response.status # 400

\* C14: a request to the Go Monte Carlo handler with iterations <= 0 is
\* answered 400; the handler does not crash and no simulation is run for it.
C14_NonPositiveCountRejected ==
    (route = GoRoute /\ body.iterations.defined /\ body.iterations.val <= 0
        /\ wpc # "received")
      => /\ wpc = "responded"
         /\ response.status = 400
         /\ ~sim.ran
         /\ sim.paths = 0

\* C16: every request received by a subprocess-backed route is eventually
\* answered (200, 400 or 500), however the subprocess ends.
C16_EveryPostAnswered ==
    (wpc = "received" /\ route \in SubprocessRoutes)
        ~> (wpc = "responded" /\ response.status \in {200, 400, 500})

\* 2 * kappa * theta < sigma_v^2
FellerViolated(b) == 2 * b.kappa.val * b.theta.val < b.sigma.val * b.sigma.val

\* No field the Heston route requires is absent or zero.
HestonBodyComplete(b) ==
    \A f \in DOMAIN b \ {"q"} : b[f].defined /\ (f \notin {"r", "rho"} => b[f].val # 0)

\* C18: with parameters that violate the Feller condition the Heston page
\* shows the warning and leaves the button enabled, and the route starts
\* the pricer with the parameters and does not answer 400.
C18_FellerViolationWarnedNotRejected ==
    (route = "heston" /\ HestonBodyComplete(body) /\ FellerViolated(body))
      => /\ wpc = "page" => FellerWarningShown(body) /\ ~ButtonDisabled
         /\ wpc \notin {"page", "received"} =>
                /\ spawned = <<WithDefaults(body)>>
                /\ response.status # 400

C18_Witness ==
    /\ route = "heston"
    /\ origin = "page"
    /\ FellerViolated(body)
    /\ HestonBodyComplete(body)
    /\ wpc = "responded"
    /\ response.status = 200
    /\ spawned # <<>>


\* The chunks in the order they arrived, joined.
RECURSIVE Concatenation(_)
Concatenation(chunks) ==
    IF chunks = <<>> THEN <<>> ELSE Head(chunks) \o Concatenation(Tail(chunks))

\* C25: a request that started a subprocess is answered 200 only if the
\* subprocess closed with exit code 0 and everything it printed, joined in
\* arrival order, parsed as JSON; once it has closed with a non-zero code or
\* with output that does not parse, the answer is a 500.
C25_SuccessOnlyFromCompleteOutput ==
    (wpc = "responded" /\ route \in SubprocessRoutes /\ spawned # <<>>) =>
        LET output == Concatenation(child.emitted)
        IN  /\ response.status = 200 =>
                  /\ Fired("close")
                  /\ child.code = 0
                  /\ child.text = <<>>
                  /\ ParsesAsJSON(output)
            /\ (Fired("close") /\ (child.code # 0 \/ ~ParsesAsJSON(output))) =>
                  response.status = 500

C25_Witness ==
    /\ wpc = "responded"
    /\ route \in SubprocessRoutes
    /\ response.status = 200
    /\ Len(child.emitted) >= 2

\* A step of a request whose route registers both listeners leaves a settled
\* promise and a given response as they are, and a response to a started
\* subprocess is the outcome the promise was settled with.
SettledStaysSettled ==
    HasErrorListener(route) =>
        /\ (promise.state = "settled" /\ wpc' \in {"running", "responded"})
               => promise' = promise
        /\ (wpc = "responded" /\ wpc' = "responded") => response' = response
        /\ (wpc' = "responded" /\ spawned' # <<>>)
               => (promise'.state = "settled" /\ response' = promise'.outcome)

\* C26: the promise of runHeston, runBlackScholes and runExotic settles at
\* most once and the request gets one response: whichever of 'error' and
\* 'close' comes second changes neither the promise nor the response.
C26_PromiseSettlesOnce == [][SettledStaysSettled]_vars

C26_Witness ==
    /\ HasErrorListener(route)
    /\ wpc = "responded"
    /\ child.fired = <<"error", "close">>
    /\ child.code = 0
    /\ ParsesAsJSON(stdout)
    /\ response.status = 500


(***************************************************************************)
(* Properties of the pricing scripts                                       *)
(***************************************************************************)
\* The market parameters of the request, q being 0 when it is absent.
Requested ==
    [S |-> body.S, K |-> body.K, T |-> body.T, r |-> body.r, sigma |-> body.sigma,
     q |-> IF body.q.defined THEN body.q ELSE Num(0)]

\* The floating tolerance: two units in the last place of the larger of the
\* two discounted amounts.
ParityTolerance == 2 * Ulp(Max(Abs(DiscountedSpot(Requested)),
                               Abs(DiscountedStrike(Requested))))

C22_KnockOutAtMostVanilla ==
    /\ xpc = "paid" =>
          /\ sums.last[1] = VanillaPayoff(path, argv.K.val)
          /\ sums.last[2] <= sums.last[1]
    /\ xpc = "priced" => exotic.barrier <= exotic.vanilla

C22_Witness ==
    /\ xpc = "priced"
    /\ sums.n >= 2
    /\ 0 < exotic.barrier
    /\ exotic.barrier < exotic.vanilla


(***************************************************************************)
(* Properties of the browser pages                                         *)
(***************************************************************************)
\* The step is the completion of the parse of the k-th file being read.
Completes(k) ==
    /\ k \in 1..Len(parsing)
    /\ Len(parsing') = Len(parsing) - 1
    /\ \A j \in 1..Len(parsing') : parsing'[j] = parsing[IF j < k THEN j ELSE j + 1]

\* C23: when the parse of an imported file completes, the fund list is the
\* list as it was just before, changes made during the parse included,
\* followed by the rows of the file that have a fund_name.
C23_ImportOnlyAppends ==
    [][\A k \in 1..Len(parsing) :
          Completes(k) => funds' = funds \o ImportedFunds(parsing[k].rows, now')]_vars

\* The steps that start a simulation request, and the requests in flight.
RequestIssued == Len(fetches') > Len(fetches)

SimulationsInFlight(fs) ==
    Cardinality({k \in 1..Len(fs) : fs[k] = "/api/simulate"})

\* C24: a simulation request is issued only when apiStatus is 'online' and
\* loading is false; at most one is in flight at any time; loading is true
\* while one is in flight and false again once it has succeeded or failed.
C24_OneSimulationWhenOnline ==
    [][mounted = "dashboard" =>
          /\ RequestIssued => (apiStatus = "online" /\ ~loading)
          /\ SimulationsInFlight(fetches') <= 1
          /\ loading' <=> SimulationsInFlight(fetches') = 1]_vars

C24_Witness ==
    /\ mounted = "dashboard"
    /\ actionsLeft < MaxActions - 1
    /\ SimulationsInFlight(fetches) = 1
    /\ loading

\* C29: the funds of the list have pairwise distinct ids.
C29_DistinctIds ==
    mounted = "portfolio" =>
        \A j, k \in 1..Len(funds) : funds[j].id = funds[k].id => j = k

\* What C30 says of a state: editingId and editForm are null together, and
\* otherwise name a fund of the list.
EditConsistent(id, form, fs) ==
    /\ id = Null <=> form = NoFund
    /\ id # Null => /\ form.id = id
                    /\ \E k \in 1..Len(fs) : fs[k].id = id

\* C30: editingId is null exactly when editForm is; when they are not,
\* editForm.id is editingId and a fund of the list has that id.  Save
\* replaces the entries whose id is editForm.id and no other, keeps the
\* length and the order of the list and clears both; Cancel clears both and
\* changes no fund.
C30_EditStateConsistent ==
    [][mounted = "portfolio" =>
          /\ EditConsistent(editingId, editForm, funds)
          /\ EditConsistent(editingId', editForm', funds')
          /\ handleSave =>
                /\ Len(funds') = Len(funds)
                /\ \A k \in 1..Len(funds) :
                      funds'[k] = IF funds[k].id = editForm.id THEN editForm
                                  ELSE funds[k]
                /\ editingId' = Null /\ editForm' = NoFund
          /\ handleCancel =>
                (funds' = funds /\ editingId' = Null /\ editForm' = NoFund)]_vars

=============================================================================
